---- MODULE Spec2Model ----
(***************************************************************************)
(* FlowState: the transaction store of app.py (the Streamlit session state *)
(* and cashflow_data.json), the extraction merge of bank_ai.py that writes *)
(* the same file, and the scenario engine of app.py.                       *)
(***************************************************************************)
EXTENDS Integers, Sequences, FiniteSets, TLC

\* ------------------------------------------------------------------ bounds

\* Ids are allocated while next_id is below this cap.
MaxNextId == 3
\* Most writes the environment fails in one behaviour.
MaxFaults == 1
\* Longest list of transactions in one extraction response: as many as the
\* cap on next_id lets a merge add.
MaxBatch == MaxNextId - 1
\* Longest list of transactions in a persisted record given to load_data alone.
MaxFileRows == 2
\* Most rows of a transaction set given to the scenario engine alone.
MaxRows == 2
\* Largest delay_days tried (the slider of app.py allows 0..60).
MaxDelay == 2

\* ------------------------------------------------------------- calendar

\* datetime.now().date(): day 58 of Year is 27 February, so that today + 3
\* days crosses a month end.
Year == 2025
Today == 58

DaysInMonth == <<31, 28, 31, 30, 31, 30, 31, 31, 30, 31, 30, 31>>

RECURSIVE DaysBeforeMonth(_)
DaysBeforeMonth(m) == IF m <= 1 THEN 0 ELSE DaysBeforeMonth(m - 1) + DaysInMonth[m - 1]

\* A datetime.date is its day number, 1 = 1 January of Year (years of 365 days:
\* no date of the model lies in a leap year).
MonthOf(n) ==
    LET doy == ((n - 1) % 365) + 1
    IN  CHOOSE m \in 1..12 : DaysBeforeMonth(m) < doy /\ doy <= DaysBeforeMonth(m) + DaysInMonth[m]

\* str(date), as json.dump(..., default=str) writes a date: "YYYY-MM-DD".
DateStrBadSep(n) ==
    [sep |-> "/", y |-> Year + ((n - 1) \div 365), m |-> MonthOf(n),
     d |-> (((n - 1) % 365) + 1) - DaysBeforeMonth(MonthOf(n))]

DateStr(n) ==
    [sep |-> "-", y |-> Year + ((n - 1) \div 365), m |-> MonthOf(n),
     d |-> (((n - 1) % 365) + 1) - DaysBeforeMonth(MonthOf(n))]

\* datetime.strptime(s, '%Y-%m-%d') raises ValueError unless this holds.
StrptimeAccepts(s) ==
    /\ s.sep = "-"
    /\ s.y \in 1..9999
    /\ s.m \in 1..12
    /\ s.d \in 1..DaysInMonth[s.m]

\* datetime.strptime(s, '%Y-%m-%d').date()
Strptime(s) == (s.y - Year) * 365 + DaysBeforeMonth(s.m) + s.d

\* ---------------------------------------------------------------- text

\* A description is a sequence of characters; str.strip() drops the
\* whitespace at both ends.
Whitespace == {" ", "\t"}

RECURSIVE LStrip(_)
LStrip(s) == IF s # <<>> /\ Head(s) \in Whitespace THEN LStrip(Tail(s)) ELSE s

RECURSIVE RStrip(_)
RStrip(s) ==
    IF s # <<>> /\ s[Len(s)] \in Whitespace THEN RStrip(SubSeq(s, 1, Len(s) - 1)) ELSE s

Strip(s) == RStrip(LStrip(s))

Abs(x) == IF x < 0 THEN -x ELSE x

\* ---------------------------------------------------------------- state

VARIABLES
    transactions_df,   \* st.session_state.transactions_df: the rows, in order
    current_balance,   \* st.session_state.current_balance
    next_id,           \* st.session_state.next_id
    file,              \* cashflow_data.json
    op,                \* the last operation and what its caller was told
    merged,            \* the response the last operation set out to write into the file, if any
    faults,            \* how many writes the environment has failed so far
    df_in,             \* scenario engine alone: the transaction set given
    params,            \* scenario engine alone: scenario_type, delay_days, what_if_expense
    df_scenario,       \* what apply_scenarios returned
    projection_df,     \* what calculate_cash_flow_projection returned
    metrics            \* what calculate_health_metrics returned

pipeVars == <<df_in, params, df_scenario, projection_df, metrics>>
vars == <<transactions_df, current_balance, next_id, file, op, merged,
          faults, df_in, params, df_scenario, projection_df, metrics>>

\* Nothing computed by calculate_health_metrics yet.
NoMetrics == [computed |-> FALSE]

\* ----------------------------------------------------------- the store

Columns == {"id", "type", "amount", "date", "description", "status", "probability"}

\* load_data's default: no rows, balance 0, next_id 1.
DefaultStore == [transactions_df |-> <<>>, current_balance |-> 0, next_id |-> 1]

Store == [transactions_df |-> transactions_df, current_balance |-> current_balance,
          next_id |-> next_id]

AbsentFile == [kind |-> "absent"]
\* A file whose text json.load rejects: empty, or cut short by a failed write.
InvalidFile == [kind |-> "invalid"]
JsonFile(data) == [kind |-> "json", data |-> data]

Ids(rows) == {rows[i].id : i \in DOMAIN rows}

\* transactions_df.to_dict('records') as json.dump(..., default=str) writes it.
ToRecords(df) == [i \in DOMAIN df |-> [df[i] EXCEPT !.date = DateStr(df[i].date)]]

SaveDataRecord(df, balance, nid) ==
    JsonFile([transactions |-> ToRecords(df), current_balance |-> balance, next_id |-> nid])

\* What the environment does to a write: it completes, open() raises, the
\* write raises after open() truncated the file, or the process dies there.
IoOutcomes == {"ok", "open_fails", "write_fails", "crash"}

FileAfterWrite(io, content) ==
    CASE io = "ok" -> content
      [] io = "open_fails" -> file
      [] OTHER -> InvalidFile

OutcomeOfSave(io) ==
    CASE io = "ok" -> "ok"
      [] io = "crash" -> "crashed"
      [] OTHER -> "raised"

\* What the state keeps of the last operation: which it was, what its caller
\* was told ("ok": it returned normally; "raised": an exception reached the
\* caller; "rejected": the form refused the input; "error": an error result;
\* "crashed": the process died), whether the description given was blank,
\* whether the id given was in no row, whether the write completed, and the
\* step the operation failed at ("none" when it did not).
Op(name, outcome, blank, unknown, saved, failed_at) ==
    [name |-> name, outcome |-> outcome, blank |-> blank, unknown |-> unknown,
     saved |-> saved, failed_at |-> failed_at]

FailedAt(io) == IF io = "ok" THEN "none" ELSE "write"

NothingMerged == [kind |-> "none"]

\* save_data(): reads the session state the operation has just assigned.
save_data(io) ==
    /\ io # "ok" => faults < MaxFaults
    /\ faults' = IF io = "ok" THEN faults ELSE faults + 1
    /\ file' = FileAfterWrite(io, SaveDataRecord(transactions_df', current_balance', next_id'))

\* load_data(): the store read from f, and whether an error was reported.
LoadFails(f) ==
    \/ f.kind = "invalid"
    \/ /\ f.kind = "json"
       /\ \/ "transactions" \notin DOMAIN f.data
          \/ \E i \in DOMAIN f.data.transactions :
                \/ "date" \notin DOMAIN f.data.transactions[i]
                \/ ~StrptimeAccepts(f.data.transactions[i].date)
          \/ "current_balance" \notin DOMAIN f.data
          \/ "next_id" \notin DOMAIN f.data

load_data(f) ==
    IF f.kind = "absent" THEN [reported |-> FALSE, store |-> DefaultStore]
    ELSE IF LoadFails(f) THEN [reported |-> TRUE, store |-> DefaultStore]
    ELSE [reported |-> FALSE,
          store |-> [transactions_df |->
                        [i \in DOMAIN f.data.transactions |->
                            [f.data.transactions[i] EXCEPT !.date = Strptime(@)]],
                     current_balance |-> f.data.current_balance,
                     next_id |-> f.data.next_id]]

\* The session of the app is running: its process did not die in a write.
AppOps == {"add_transaction", "update_transaction", "delete_transaction",
           "update_balance", "clear_all_data"}
Alive == ~(op.outcome = "crashed" /\ op.name \in AppOps)

\* --------------------------------------------------------------- inputs

\* What a form is filled with: a transaction, and the same with an empty and
\* with a whitespace-only description.
Invoice == [type |-> "income", amount |-> 500, date |-> Today + 2,
            description |-> <<"i">>, status |-> "pending", probability |-> 80]
FormInputs ==
    {Invoice, [Invoice EXCEPT !.description = <<>>],
     [Invoice EXCEPT !.description = <<" ", "\t">>]}
Balances == {1000}
Callers == {"show_transaction_editor", "quick_add_income", "quick_add_expense", "direct"}

\* What each caller passes to add_transaction from the form t.
Passed(caller, t) ==
    CASE caller = "quick_add_income" -> [t EXCEPT !.type = "income", !.status = "projected"]
      [] caller = "quick_add_expense" -> [t EXCEPT !.type = "expense", !.status = "projected"]
      [] OTHER -> t

\* ------------------------------------------------------------ operations

\* initialize_session_state() of a new session: load_data().
initialize_session_state ==
    LET got == load_data(file)
    IN  /\ transactions_df' = got.store.transactions_df
        /\ current_balance' = got.store.current_balance
        /\ next_id' = got.store.next_id
        /\ op' = Op("load_data", IF got.reported THEN "error" ELSE "ok", FALSE, FALSE, FALSE,
                    IF got.reported THEN "load" ELSE "none")
        /\ merged' = NothingMerged
        /\ UNCHANGED <<file, faults, df_in, params, df_scenario, projection_df, metrics>>

\* The row add_transaction appends.
NewRow(t) == [id |-> next_id] @@ t

\* add_transaction without "next_id += 1".
add_transaction_no_increment(t, io) ==
    /\ transactions_df' = Append(transactions_df, NewRow(t))
    /\ UNCHANGED <<current_balance, next_id>>
    /\ save_data(io)

add_transaction(t, io) ==
    /\ transactions_df' = Append(transactions_df, NewRow(t))
    /\ next_id' = next_id + 1
    /\ UNCHANGED current_balance
    /\ save_data(io)

\* The three forms call add_transaction only if description.strip() is not
\* empty; any other caller reaches add_transaction as it is.
Guarded(caller) == caller # "direct"

AddTransaction(caller, t, io) ==
    /\ Alive
    /\ next_id < MaxNextId
    /\ merged' = NothingMerged
    /\ UNCHANGED pipeVars
    /\ IF Guarded(caller) /\ Strip(t.description) = <<>>
       THEN /\ io = "ok"
            /\ op' = Op("add_transaction", "rejected", TRUE, FALSE, FALSE, "validation")
            /\ UNCHANGED <<transactions_df, current_balance, next_id, file, faults>>
       ELSE /\ add_transaction(Passed(caller, t), io)
            /\ op' = Op("add_transaction", OutcomeOfSave(io), Strip(t.description) = <<>>,
                        FALSE, io = "ok", FailedAt(io))

\* The position update_transaction writes: .index[0] of the rows with the id.
FirstIndexOf(df, id) == CHOOSE i \in DOMAIN df : df[i].id = id /\ \A j \in 1..(i - 1) : df[j].id # id

update_transaction(id, t, io) ==
    /\ transactions_df' = [transactions_df EXCEPT ![FirstIndexOf(transactions_df, id)] =
                              [id |-> id] @@ t]
    /\ UNCHANGED <<current_balance, next_id>>
    /\ save_data(io)

\* update_transaction(transaction_id, ...): .index[0] raises IndexError when
\* no row has the id, before anything is assigned.
UpdateTransaction(id, t, io) ==
    /\ Alive
    /\ merged' = NothingMerged
    /\ UNCHANGED pipeVars
    /\ IF id \notin Ids(transactions_df)
       THEN /\ io = "ok"
            /\ op' = Op("update_transaction", "raised", FALSE, TRUE, FALSE, "lookup")
            /\ UNCHANGED <<transactions_df, current_balance, next_id, file, faults>>
       ELSE /\ update_transaction(id, t, io)
            /\ op' = Op("update_transaction", OutcomeOfSave(io), FALSE, FALSE, io = "ok",
                        FailedAt(io))

\* The rows whose id is not the one given, in order.
RowsWithout(df, id) == SelectSeq(df, LAMBDA r : r.id # id)

delete_transaction(id, io) ==
    /\ transactions_df' = RowsWithout(transactions_df, id)
    /\ UNCHANGED <<current_balance, next_id>>
    /\ save_data(io)

DeleteTransaction(id, io) ==
    /\ Alive
    /\ merged' = NothingMerged
    /\ UNCHANGED pipeVars
    /\ delete_transaction(id, io)
    /\ op' = Op("delete_transaction", OutcomeOfSave(io), FALSE,
                id \notin Ids(transactions_df), io = "ok", FailedAt(io))

\* show_balance_editor, "Update Balance".
show_balance_editor(new_balance, io) ==
    /\ Alive
    /\ merged' = NothingMerged
    /\ UNCHANGED pipeVars
    /\ current_balance' = new_balance
    /\ UNCHANGED <<transactions_df, next_id>>
    /\ save_data(io)
    /\ op' = Op("update_balance", OutcomeOfSave(io), FALSE, FALSE, io = "ok", FailedAt(io))

\* show_quick_actions, "Clear All Data".
show_quick_actions(io) ==
    /\ Alive
    /\ merged' = NothingMerged
    /\ UNCHANGED pipeVars
    /\ transactions_df' = <<>>
    /\ current_balance' = 0
    /\ next_id' = 1
    /\ save_data(io)
    /\ op' = Op("clear_all_data", OutcomeOfSave(io), FALSE, FALSE, io = "ok", FailedAt(io))

\* ------------------------------------------------- the extraction merge

\* Transactions as the extraction response carries them: signed amounts, an
\* id, status and probability of the response's own, dates as strings. The
\* second one lacks its description.
Debit == [id |-> 1, type |-> "expense", amount |-> -250, date |-> DateStr(Today - 27),
          description |-> <<"d">>, status |-> "pending", probability |-> 95]
NoDescription == [id |-> 2, type |-> "income", amount |-> 700, date |-> DateStr(Today),
                  status |-> "confirmed", probability |-> 90]
BatchInputs == {Debit, NoDescription}
StatementBalance == 500

SeqsUpTo(S, n) == UNION {[1..k -> S] : k \in 0..n}

\* The parsed responses: with or without "current_balance".
Responses ==
    {[transactions |-> l] : l \in SeqsUpTo(BatchInputs, MaxBatch)}
    \cup {[transactions |-> l, current_balance |-> StatementBalance] :
            l \in SeqsUpTo(BatchInputs, MaxBatch)}

\* existing_data: the file's record, or a fresh one when the file is absent
\* or json.load rejects it.
ExistingData(f) ==
    IF f.kind = "json" THEN f.data
    ELSE [transactions |-> <<>>, current_balance |-> 0, next_id |-> 1]

RequiredKeys == {"type", "amount", "date", "description"}

\* flowstate_transaction without abs().
flowstate_transaction_signed(t, nid) ==
    [id |-> nid, type |-> t.type, amount |-> t.amount, date |-> t.date,
     description |-> t.description, status |-> "confirmed", probability |-> 100]

flowstate_transaction(t, nid) ==
    [id |-> nid, type |-> t.type, amount |-> Abs(t.amount), date |-> t.date,
     description |-> t.description, status |-> "confirmed", probability |-> 100]

\* The loop over transaction_list: a missing key raises KeyError, which ends
\* save_to_cashflow_data before it opens the file for writing.
RECURSIVE ConvertAll(_, _, _)
ConvertAll(rows, list, nid) ==
    IF list = <<>> THEN [ok |-> TRUE, transactions |-> rows, next_id |-> nid]
    ELSE IF ~(RequiredKeys \subseteq DOMAIN Head(list))
         THEN [ok |-> FALSE, transactions |-> rows, next_id |-> nid]
         ELSE ConvertAll(Append(rows, flowstate_transaction(Head(list), nid)),
                         Tail(list), nid + 1)

\* save_to_cashflow_data(transactions): what it returns and the file it leaves.
save_to_cashflow_data(f, data, io) ==
    LET existing == ExistingData(f)
        list == IF "transactions" \in DOMAIN data THEN data.transactions ELSE <<>>
        conv == ConvertAll(existing.transactions, list, existing.next_id)
        content == JsonFile([transactions |-> conv.transactions,
                             current_balance |->
                                 IF "current_balance" \in DOMAIN data
                                 THEN data.current_balance
                                 ELSE existing.current_balance,
                             next_id |-> conv.next_id])
    IN  IF ~conv.ok THEN [returned |-> FALSE, wrote |-> FALSE, file |-> f]
        ELSE [returned |-> (io = "ok"), wrote |-> TRUE, file |-> FileAfterWrite(io, content)]

Documents == {"unreadable", "short", "ok"}
ResponseKinds == {"api_error", "not_json", "json"}

\* The step convert_pdf_to_json fails at on these inputs, "none" if at none.
StepFailed(pdf, kind, got) ==
    CASE pdf = "unreadable" -> "extract_pdf_text"
      [] pdf = "short" -> "text_length"
      [] kind = "api_error" -> "generate_content"
      [] kind = "not_json" -> "json_loads"
      [] ~got.wrote -> "key"
      [] ~got.returned -> "write"
      [] OTHER -> "none"

\* convert_pdf_to_json(pdf_file, filename): the result of
\* save_to_cashflow_data is not looked at.
convert_pdf_to_json(pdf, kind, data, io) ==
    /\ UNCHANGED <<transactions_df, current_balance, next_id, df_in, params, df_scenario,
                   projection_df, metrics>>
    /\ IF pdf # "ok" \/ kind # "json"
       THEN /\ io = "ok"
            /\ data = [transactions |-> <<>>]
            /\ pdf # "ok" => kind = "json"
            /\ merged' = NothingMerged
            /\ op' = Op("convert_pdf_to_json", "error", FALSE, FALSE, FALSE,
                        StepFailed(pdf, kind, [wrote |-> FALSE, returned |-> FALSE]))
            /\ UNCHANGED <<file, faults>>
       ELSE LET got == save_to_cashflow_data(file, data, io)
            IN  /\ ExistingData(file).next_id + Len(data.transactions) <= MaxNextId
                /\ (io # "ok" /\ got.wrote) => faults < MaxFaults
                /\ io # "ok" => got.wrote
                /\ faults' = IF io # "ok" THEN faults + 1 ELSE faults
                /\ file' = got.file
                /\ merged' = IF got.wrote THEN [kind |-> "json", data |-> data]
                              ELSE NothingMerged
                /\ op' = Op("convert_pdf_to_json", IF io = "crash" THEN "crashed" ELSE "ok",
                            FALSE, FALSE, got.returned, StepFailed(pdf, kind, got))

Init ==
    /\ transactions_df = <<>>
    /\ current_balance = 0
    /\ next_id = 1
    /\ file = AbsentFile
    /\ op = Op("init", "ok", FALSE, FALSE, FALSE, "none")
    /\ merged = NothingMerged
    /\ faults = 0
    /\ df_in = <<>>
    /\ params = [scenario_type |-> "Base Case", delay_days |-> 0, what_if_expense |-> 0]
    /\ df_scenario = <<>>
    /\ projection_df = <<>>
    /\ metrics = NoMetrics

\* One operation, the environment treating its write as one of ios does.
Step(ios) ==
    \/ initialize_session_state
    \/ \E c \in Callers, t \in FormInputs, io \in ios : AddTransaction(c, t, io)
    \/ \E id \in 1..MaxNextId, t \in FormInputs, io \in ios : UpdateTransaction(id, t, io)
    \/ \E id \in 1..MaxNextId, io \in ios : DeleteTransaction(id, io)
    \/ \E b \in Balances, io \in ios : show_balance_editor(b, io)
    \/ \E io \in ios : show_quick_actions(io)
    \/ \E pdf \in Documents, kind \in ResponseKinds, data \in Responses, io \in ios :
          convert_pdf_to_json(pdf, kind, data, io)

\* Every write completes.
Next == Step({"ok"})

Spec == Init /\ [][Next]_vars

\* Writes may fail or be cut short by the death of the process, MaxFaults
\* times in all.
FaultNext == Step(IoOutcomes)

FaultSpec == Init /\ [][FaultNext]_vars

\* ------------------------------------------------------ load_data alone

Without(r, k) == [x \in (DOMAIN r) \ {k} |-> r[x]]

\* Rows of a persisted record: one as save_data writes it, one without its
\* amount, one without its date, one dated "2025/03/01", one dated
\* "2025-02-30".
GoodRow == [id |-> 1] @@ [Invoice EXCEPT !.date = DateStr(Today + 2)]
FileRowInputs ==
    {GoodRow, Without(GoodRow, "amount"), Without(GoodRow, "date"),
     [GoodRow EXCEPT !.date = DateStrBadSep(Today + 2)],
     [GoodRow EXCEPT !.date = [sep |-> "-", y |-> Year, m |-> 2, d |-> 30]]}

\* The lists of such rows, numbered 1, 2, ... as save_data would have.
FileRowLists ==
    {[i \in DOMAIN l |-> [x \in DOMAIN l[i] |-> IF x = "id" THEN i ELSE l[i][x]]] :
        l \in SeqsUpTo(FileRowInputs, MaxFileRows)}

\* The files load_data may find: none, one that is not JSON, and records
\* with every key or lacking one of them.
FileInputs ==
    {AbsentFile, InvalidFile}
    \cup {JsonFile(Without([transactions |-> l, current_balance |-> 1000,
                            next_id |-> Len(l) + 1], k)) :
             l \in FileRowLists, k \in {"none", "transactions", "current_balance", "next_id"}}

LoadInit ==
    /\ file \in FileInputs
    /\ transactions_df = <<>>
    /\ current_balance = 0
    /\ next_id = 1
    /\ op = Op("init", "ok", FALSE, FALSE, FALSE, "none")
    /\ merged = NothingMerged
    /\ faults = 0
    /\ df_in = <<>>
    /\ params = [scenario_type |-> "Base Case", delay_days |-> 0, what_if_expense |-> 0]
    /\ df_scenario = <<>>
    /\ projection_df = <<>>
    /\ metrics = NoMetrics

LoadNext == initialize_session_state

LoadSpec == LoadInit /\ [][LoadNext]_vars

\* ------------------------------------------------- the scenario engine

WhatIfId == 9999
WhatIfDays == 3
WhatIfDescription ==
    <<"W", "h", "a", "t", "-", "I", "f", " ", "E", "x", "p", "e", "n", "s", "e">>

\* The row apply_scenarios adds when what_if_expense > 0.
new_expense(what_if_expense) ==
    [id |-> WhatIfId, type |-> "expense", amount |-> what_if_expense,
     date |-> Today + WhatIfDays, description |-> WhatIfDescription,
     status |-> "projected", probability |-> 100]

\* A mask that looks at the status alone.
mask_pending_only(r) == r.status = "pending"

\* mask: the rows "Payment Delays" moves.
mask(r) == r.type = "income" /\ r.status = "pending"

\* df_scenario before the closing sort_values('date'); an empty df is
\* returned as it is.
ScenarioRows(df, scenario_type, delay_days, what_if_expense) ==
    LET delayed == [i \in DOMAIN df |->
                      IF scenario_type = "Payment Delays" /\ mask(df[i])
                      THEN [df[i] EXCEPT !.date = @ + delay_days]
                      ELSE df[i]]
    IN  IF df = <<>> THEN <<>>
        ELSE IF what_if_expense > 0 THEN Append(delayed, new_expense(what_if_expense))
        ELSE delayed

SortedByDate(rows) == \A i \in 1..(Len(rows) - 1) : rows[i].date <= rows[i + 1].date

Orderings(rows) == {[i \in DOMAIN rows |-> rows[p[i]]] : p \in Permutations(DOMAIN rows)}

\* The rows left in the order they came in.
SortValuesByDate_unsorted(rows) == {rows}

\* sort_values('date'): rows of one date come out in an order the sort does
\* not promise.
SortValuesByDate(rows) == {o \in Orderings(rows) : SortedByDate(o)}

ScenarioTypes == {"Base Case", "Payment Delays"}
WhatIfAmounts == {0, 500}

\* apply_scenarios(df, scenario_type, delay_days, what_if_expense)
apply_scenarios(scenario_type, delay_days, what_if_expense) ==
    /\ op.name = "init"
    /\ params' = [scenario_type |-> scenario_type, delay_days |-> delay_days,
                  what_if_expense |-> what_if_expense]
    /\ df_scenario' \in
          SortValuesByDate(ScenarioRows(df_in, scenario_type, delay_days, what_if_expense))
    /\ op' = Op("apply_scenarios", "ok", FALSE, FALSE, FALSE, "none")
    /\ UNCHANGED <<transactions_df, current_balance, next_id, file, merged, faults, df_in,
                   projection_df, metrics>>

\* The rows given to the scenario engine: a pending income, a pending
\* expense and a confirmed income, the last two a day after the first.
PendingIncome == [type |-> "income", amount |-> 500, date |-> Today + 1,
                  description |-> <<"i">>, status |-> "pending", probability |-> 80]
PendingExpense == [type |-> "expense", amount |-> 200, date |-> Today + 2,
                   description |-> <<"r">>, status |-> "pending", probability |-> 100]
ConfirmedIncome == [type |-> "income", amount |-> 300, date |-> Today + 2,
                    description |-> <<"c">>, status |-> "confirmed", probability |-> 100]
ScenarioRowInputs == {PendingIncome, PendingExpense, ConfirmedIncome}

\* The transaction sets: rows numbered 1, 2, ... as add_transaction numbers them.
ScenarioInputs ==
    {[i \in DOMAIN l |-> [id |-> i] @@ l[i]] : l \in SeqsUpTo(ScenarioRowInputs, MaxRows)}

ScenarioInit ==
    /\ df_in \in ScenarioInputs
    /\ params = [scenario_type |-> "Base Case", delay_days |-> 0, what_if_expense |-> 0]
    /\ df_scenario = <<>>
    /\ projection_df = <<>>
    /\ metrics = NoMetrics
    /\ transactions_df = <<>>
    /\ current_balance = 0
    /\ next_id = 1
    /\ file = AbsentFile
    /\ op = Op("init", "ok", FALSE, FALSE, FALSE, "none")
    /\ merged = NothingMerged
    /\ faults = 0

ScenarioNext ==
    \E st \in ScenarioTypes, d \in 0..MaxDelay, w \in WhatIfAmounts : apply_scenarios(st, d, w)

ScenarioSpec == ScenarioInit /\ [][ScenarioNext]_vars

\* ---------------------------------------------------- the read pipeline

\* Latest day after today on which the rows given to the pipeline fall.
DangerHorizon == 61

\* Series.sum() of a column of amounts.
RECURSIVE SumSeq(_)
SumSeq(s) == IF s = <<>> THEN 0 ELSE Head(s) + SumSeq(Tail(s))

\* day_transactions[day_transactions['type'] == type]['amount']
AmountsOn(df, date, type) ==
    LET rows == SelectSeq(df, LAMBDA r : r.date = date /\ r.type = type)
    IN  [i \in DOMAIN rows |-> rows[i].amount]

DatesOf(df) == {df[i].date : i \in DOMAIN df}
MinDate(df) == CHOOSE d \in DatesOf(df) : \A e \in DatesOf(df) : d <= e
MaxDate(df) == CHOOSE d \in DatesOf(df) : \A e \in DatesOf(df) : d >= e

\* A range of days that leaves out its last day.
date_range_exclusive(min_date, max_date) ==
    [i \in 1..(max_date - min_date) |-> min_date + i - 1]

\* pd.date_range(min_date, max_date, freq='D')
date_range(min_date, max_date) ==
    [i \in 1..(max_date - min_date + 1) |-> min_date + i - 1]

\* The flows of a day added up instead of netted.
net_flow_added(daily_income, daily_expenses) == daily_income + daily_expenses

\* net_flow = daily_income - daily_expenses
net_flow(daily_income, daily_expenses) == daily_income - daily_expenses

\* The balance set to the day's flow instead of moved by it.
running_balance_assigned(balance, flow) == flow

\* current_balance += net_flow
running_balance(balance, flow) == balance + flow

\* The point of today that opens every timeline.
TodayPoint(starting_balance) ==
    [date |-> Today, balance |-> starting_balance, daily_income |-> 0,
     daily_expenses |-> 0, net_flow |-> 0]

\* The loop over the days, from the i-th on, balance carried from day to day.
RECURSIVE DailyBalances(_, _, _, _)
DailyBalances(df, days, i, balance) ==
    IF i > Len(days) THEN <<>>
    ELSE LET daily_income == SumSeq(AmountsOn(df, days[i], "income"))
             daily_expenses == SumSeq(AmountsOn(df, days[i], "expense"))
             flow == net_flow(daily_income, daily_expenses)
             carried == running_balance(balance, flow)
         IN  <<[date |-> days[i], balance |-> carried, daily_income |-> daily_income,
                daily_expenses |-> daily_expenses, net_flow |-> flow]>>
             \o DailyBalances(df, days, i + 1, carried)

\* calculate_cash_flow_projection(df, starting_balance): daily_flows
daily_flows(df, starting_balance) ==
    IF df = <<>> THEN <<TodayPoint(starting_balance)>>
    ELSE <<TodayPoint(starting_balance)>>
         \o DailyBalances(df, date_range(MinDate(df), MaxDate(df)), 1, starting_balance)

\* negative_days = projection_df[projection_df['balance'] < 0]
negative_days(projection) == SelectSeq(projection, LAMBDA pt : pt.balance < 0)

\* days_until_danger: <<>> is None, <<n>> is n days.
days_until_danger(projection) ==
    IF negative_days(projection) = <<>> THEN <<>>
    ELSE <<negative_days(projection)[1].date - Today>>

\* A score whose middle branch ends one day early.
health_score_early_cap(danger) ==
    IF danger = <<>> THEN 100
    ELSE IF danger[1] < 30 THEN (IF danger[1] * 2 > 0 THEN danger[1] * 2 ELSE 0)
    ELSE IF danger[1] < 59 THEN 60 + (danger[1] - 30)
    ELSE 90

\* A score that doubles the days without the floor of 0.
health_score_no_floor(danger) ==
    IF danger = <<>> THEN 100
    ELSE IF danger[1] < 30 THEN danger[1] * 2
    ELSE IF danger[1] < 60 THEN 60 + (danger[1] - 30)
    ELSE 90

\* health_score; round() of a whole number is that number.
health_score(danger) ==
    IF danger = <<>> THEN 100
    ELSE IF danger[1] < 30 THEN (IF danger[1] * 2 > 0 THEN danger[1] * 2 ELSE 0)
    ELSE IF danger[1] < 60 THEN 60 + (danger[1] - 30)
    ELSE 90

\* monthly_runway as the fraction num/den before round(.., 1), or "inf".
monthly_runway(projection, balance) ==
    LET expenses == SumSeq([i \in DOMAIN projection |-> projection[i].daily_expenses])
    IN  IF Len(projection) > 1 /\ expenses > 0
        THEN [inf |-> FALSE, num |-> balance * Len(projection), den |-> expenses * 30]
        ELSE [inf |-> TRUE]

\* trend_direction: last minus first of the last five balances.
trend_direction(projection) ==
    LET n == Len(projection)
        first == IF n > 5 THEN n - 4 ELSE 1
    IN  IF n > 1 THEN projection[n].balance - projection[first].balance ELSE 0

min_balance(projection) ==
    CHOOSE b \in {projection[i].balance : i \in DOMAIN projection} :
        \A i \in DOMAIN projection : b <= projection[i].balance

\* calculate_health_metrics(projection_df, current_balance)
calculate_health_metrics(projection, balance) ==
    [computed |-> TRUE,
     health_score |-> health_score(days_until_danger(projection)),
     days_until_danger |-> days_until_danger(projection),
     monthly_runway |-> monthly_runway(projection, balance),
     trend_direction |-> trend_direction(projection),
     min_balance |-> min_balance(projection),
     current_balance |-> balance]

\* The rows of df moved where they stand, as without df.copy().
df_after_apply_scenarios_in_place(df, scenario_type, delay_days) ==
    [i \in DOMAIN df |->
        IF scenario_type = "Payment Delays" /\ mask(df[i])
        THEN [df[i] EXCEPT !.date = @ + delay_days]
        ELSE df[i]]

\* The df given to apply_scenarios once it has returned: every assignment
\* went to df_scenario = df.copy().
df_after_apply_scenarios(df, scenario_type, delay_days) == df

\* main: the transactions of the session through apply_scenarios,
\* calculate_cash_flow_projection and calculate_health_metrics.
main(scenario_type, delay_days, what_if_expense) ==
    /\ op.name = "init"
    /\ df_in' = transactions_df
    /\ params' = [scenario_type |-> scenario_type, delay_days |-> delay_days,
                  what_if_expense |-> what_if_expense]
    /\ df_scenario' \in
          SortValuesByDate(ScenarioRows(transactions_df, scenario_type, delay_days,
                                        what_if_expense))
    /\ transactions_df' = df_after_apply_scenarios(transactions_df, scenario_type, delay_days)
    /\ projection_df' = daily_flows(df_scenario', current_balance)
    /\ metrics' = calculate_health_metrics(projection_df', current_balance)
    /\ op' = Op("main", "ok", FALSE, FALSE, FALSE, "none")
    /\ UNCHANGED <<current_balance, next_id, file, merged, faults>>

\* The stores the pipeline is run on. Rows near today: those given to the
\* scenario engine and an expense of yesterday; and one expense alone, on
\* any day from today to the horizon.
PastExpense == [type |-> "expense", amount |-> 150, date |-> Today - 1,
                description |-> <<"p">>, status |-> "confirmed", probability |-> 100]
LateExpense(k) == [type |-> "expense", amount |-> 150, date |-> Today + k,
                   description |-> <<"l">>, status |-> "pending", probability |-> 100]
PipelineInputs ==
    {[i \in DOMAIN l |-> [id |-> i] @@ l[i]] :
        l \in SeqsUpTo(ScenarioRowInputs \cup {PastExpense}, MaxRows)}
    \cup {<<[id |-> 1] @@ LateExpense(k)>> : k \in 0..DangerHorizon}

\* current_balance as the file or a statement gives it: overdrawn, small, large.
StartingBalances == {-100, 50, 1000}

\* The session as a completed save leaves it.
PipelineInit ==
    /\ transactions_df \in PipelineInputs
    /\ current_balance \in StartingBalances
    /\ next_id = Len(transactions_df) + 1
    /\ file = SaveDataRecord(transactions_df, current_balance, next_id)
    /\ op = Op("init", "ok", FALSE, FALSE, FALSE, "none")
    /\ merged = NothingMerged
    /\ faults = 0
    /\ df_in = <<>>
    /\ params = [scenario_type |-> "Base Case", delay_days |-> 0, what_if_expense |-> 0]
    /\ df_scenario = <<>>
    /\ projection_df = <<>>
    /\ metrics = NoMetrics

PipelineNext ==
    \E st \in ScenarioTypes, d \in 0..MaxDelay, w \in WhatIfAmounts : main(st, d, w)

PipelineSpec == PipelineInit /\ [][PipelineNext]_vars

\* --------------------------------------------------------------- claims

WellNumbered(rows, nid) ==
    /\ \A i, j \in DOMAIN rows : i # j => rows[i].id # rows[j].id
    /\ \A i \in DOMAIN rows : rows[i].id < nid

\* C1: in every reachable state the ids of the session's rows are pairwise
\* distinct and below next_id, and so are those of the persisted record.
C1_IdsDistinctBelowNextId ==
    /\ WellNumbered(transactions_df, next_id)
    /\ file.kind = "json" => WellNumbered(file.data.transactions, file.data.next_id)

\* C1 witness: a merge has just written a second row into a file while the
\* session holds two rows of its own.
C1_Witness ==
    /\ op.name = "convert_pdf_to_json" /\ op.saved
    /\ file.kind = "json" /\ Len(file.data.transactions) = 2
    /\ Len(transactions_df) = 2

\* C2: when a mutating operation of the app has returned normally the file
\* holds the record of the session's store, and when its save failed the
\* caller got an exception and the file still loads to the session's store.
C2_MutationAtomicWithSave ==
    /\ (op.name \in AppOps /\ op.outcome = "ok") =>
          file = SaveDataRecord(transactions_df, current_balance, next_id)
    /\ (op.name \in AppOps /\ op.failed_at = "write" /\ op.outcome # "crashed") =>
          /\ op.outcome = "raised"
          /\ load_data(file).store = Store

\* The store a load would return had the write that the step cut short completed.
StoreBeingWritten ==
    IF op'.name \in AppOps THEN Store'
    ELSE load_data(save_to_cashflow_data(file, merged'.data, "ok").file).store

\* C3: after a write cut short by the death of the process, a load of the
\* file returns the store persisted before or the store being written.
C3_SaveAllOrNothing ==
    [][op'.outcome = "crashed" =>
          load_data(file').store \in {load_data(file).store, StoreBeingWritten}]_vars

\* C4: update and delete with an id of no row raise to the caller and leave
\* the session's store and the file as they were.
C4_UnknownIdReported ==
    [][(op'.name \in {"update_transaction", "delete_transaction"} /\ op'.unknown) =>
          /\ op'.outcome = "raised"
          /\ UNCHANGED <<transactions_df, current_balance, next_id, file>>]_vars

\* C5: a merge that wrote the file appended one row per transaction of the
\* response, in order, with the absolute amount, status confirmed, probability
\* 100 and ids counting up from the file's next_id; next_id grew by the
\* length of the response; the balance is the response's if it carries one;
\* the rows the file held are where and what they were.
C5_MergeTransforms ==
    [][(op'.name = "convert_pdf_to_json" /\ op'.saved) =>
          LET old == ExistingData(file)
              batch == merged'.data.transactions
              n == Len(old.transactions)
          IN  /\ file'.kind = "json"
              /\ Len(file'.data.transactions) = n + Len(batch)
              /\ \A i \in 1..n : file'.data.transactions[i] = old.transactions[i]
              /\ \A j \in 1..Len(batch) :
                    LET r == file'.data.transactions[n + j]
                    IN  /\ r.id = old.next_id + j - 1
                        /\ r.amount >= 0
                        /\ r.amount \in {batch[j].amount, 0 - batch[j].amount}
                        /\ r.status = "confirmed"
                        /\ r.probability = 100
              /\ file'.data.next_id = old.next_id + Len(batch)
              /\ file'.data.current_balance =
                    IF "current_balance" \in DOMAIN merged'.data
                    THEN merged'.data.current_balance
                    ELSE old.current_balance]_vars

\* C5 witness: a response of one transaction and no balance was merged into
\* a file that held a row and a balance.
C5_Witness ==
    /\ op.name = "convert_pdf_to_json" /\ op.saved
    /\ Len(merged.data.transactions) = 1
    /\ "current_balance" \notin DOMAIN merged.data
    /\ Len(file.data.transactions) = 2
    /\ file.data.current_balance = 1000

\* C6: an extraction that failed at any step returned an error result and
\* left the file as it was.
C6_FailureReported ==
    [][(op'.name = "convert_pdf_to_json" /\ op'.failed_at # "none"
            /\ op'.outcome # "crashed") =>
          /\ op'.outcome = "error"
          /\ file' = file]_vars

\* C7: an add whose description is empty or whitespace is rejected, whoever
\* calls it, and leaves rows, next_id and file as they were.
C7_BlankDescriptionRejected ==
    [][(op'.name = "add_transaction" /\ op'.blank) =>
          /\ op'.outcome = "rejected"
          /\ UNCHANGED <<transactions_df, next_id, file>>]_vars

\* C8: loading what save_data writes for the session's store returns that
\* store: the same rows, balance and next_id, and no error.
C8_SaveLoadRoundTrip ==
    load_data(SaveDataRecord(transactions_df, current_balance, next_id))
        = [reported |-> FALSE, store |-> Store]

\* C8 witness: a new session has loaded a file of two rows and a balance that
\* the session before it saved.
C8_Witness ==
    /\ op.name = "load_data" /\ op.outcome = "ok"
    /\ Len(transactions_df) = 2
    /\ current_balance = 1000
    /\ file = SaveDataRecord(transactions_df, current_balance, next_id)

\* A persisted record the interface calls malformed: not JSON, a key of the
\* record or of a row missing, or a date that is not a calendar date written
\* YYYY-MM-DD.
Malformed(f) ==
    \/ f.kind = "invalid"
    \/ /\ f.kind = "json"
       /\ \/ ~({"transactions", "current_balance", "next_id"} \subseteq DOMAIN f.data)
          \/ /\ "transactions" \in DOMAIN f.data
             /\ \E i \in DOMAIN f.data.transactions :
                   LET r == f.data.transactions[i]
                   IN  \/ ~(Columns \subseteq DOMAIN r)
                       \/ r.date.sep # "-"
                       \/ r.date.m \notin 1..12
                       \/ r.date.d \notin 1..DaysInMonth[r.date.m]

\* C9: a load of no file returns the empty default; a load of a malformed
\* record reports an error and returns the empty default.
C9_LoadRejectsMalformed ==
    op.name = "load_data" =>
        /\ file.kind = "absent" => (op.outcome = "ok" /\ Store = DefaultStore)
        /\ Malformed(file) => (op.outcome = "error" /\ Store = DefaultStore)

SameContent(a, b) ==
    /\ Len(a) = Len(b)
    /\ \E p \in Permutations(DOMAIN a) : \A i \in DOMAIN a : a[i] = b[p[i]]

\* C10: under "Payment Delays" the rows returned, the what-if row aside, are
\* as many as the rows given; each pending income given is among them with
\* its date delay_days later and each other row given is among them as it
\* was; with delay_days = 0 the rows returned are those of "Base Case".
C10_PaymentDelays ==
    (op.name = "apply_scenarios" /\ params.scenario_type = "Payment Delays") =>
        LET d == params.delay_days
            Moved(r) == IF r.type = "income" /\ r.status = "pending"
                        THEN [r EXCEPT !.date = r.date + d]
                        ELSE r
            kept == SelectSeq(df_scenario, LAMBDA r : r.id # WhatIfId)
        IN  /\ Len(kept) = Len(df_in)
            /\ \A i \in DOMAIN df_in : \E j \in DOMAIN kept : kept[j] = Moved(df_in[i])
            /\ d = 0 => SameContent(df_scenario,
                                    ScenarioRows(df_in, "Base Case", 0, params.what_if_expense))

\* C10 witness: a pending income dated before a pending expense was delayed
\* past it, and came out after it.
C10_Witness ==
    /\ op.name = "apply_scenarios" /\ params.scenario_type = "Payment Delays"
    /\ params.delay_days = 2
    /\ Len(df_in) = 2
    /\ df_in[1].type = "income" /\ df_in[1].status = "pending"
    /\ df_in[2].type = "expense" /\ df_in[2].status = "pending"
    /\ df_scenario[1] = df_in[2]
    /\ df_scenario[2].id = df_in[1].id
    /\ df_scenario[2].date = df_in[1].date + 2

\* C11: whatever rows are given (none included) and whichever scenario, with
\* what_if_expense > 0 the rows returned are one more than the rows given
\* and exactly one of them is the what-if expense (expense, projected,
\* probability 100, dated today + 3 days, "What-If Expense", the amount
\* asked); with what_if_expense = 0 none of them is.
C11_WhatIfInjected ==
    op.name = "apply_scenarios" =>
        LET w == params.what_if_expense
            Synthetic(r) == /\ r.type = "expense" /\ r.status = "projected"
                            /\ r.probability = 100 /\ r.date = Today + 3
                            /\ r.description = WhatIfDescription /\ r.amount = w
            found == {i \in DOMAIN df_scenario : Synthetic(df_scenario[i])}
        IN  /\ w > 0 => (Len(df_scenario) = Len(df_in) + 1 /\ Cardinality(found) = 1)
            /\ w = 0 => (Len(df_scenario) = Len(df_in)
                         /\ \A i \in DOMAIN df_scenario :
                               df_scenario[i].description # WhatIfDescription)

\* C12: "Base Case" with what_if_expense = 0 returns the rows given, every
\* field equal, in some order, and that order is ascending by date.
C12_BaseCaseIdentity ==
    (op.name = "apply_scenarios" /\ params.scenario_type = "Base Case"
        /\ params.what_if_expense = 0) =>
        /\ SameContent(df_scenario, df_in)
        /\ \A i, j \in DOMAIN df_scenario :
              i < j => df_scenario[i].date <= df_scenario[j].date

\* C12 witness: two rows given latest first came back earliest first.
C12_Witness ==
    /\ op.name = "apply_scenarios" /\ params.scenario_type = "Base Case"
    /\ params.what_if_expense = 0
    /\ Len(df_in) = 2
    /\ df_in[1].date > df_in[2].date
    /\ df_scenario = <<df_in[2], df_in[1]>>

\* C13: for rows with dates the timeline has (latest date - earliest date) + 2
\* points: first the point of today with the starting balance and no flows,
\* then one point for each day from the earliest to the latest date, in
\* order and without gaps; for no rows it is the point of today alone.
C13_TimelinePoints ==
    op.name = "main" =>
        LET dates == {df_scenario[i].date : i \in DOMAIN df_scenario}
            first == [date |-> Today, balance |-> current_balance, daily_income |-> 0,
                      daily_expenses |-> 0, net_flow |-> 0]
        IN  /\ projection_df[1] = first
            /\ dates = {} => Len(projection_df) = 1
            /\ dates # {} =>
                  \E lo \in dates, hi \in dates :
                     /\ \A d \in dates : lo <= d /\ d <= hi
                     /\ Len(projection_df) = (hi - lo) + 2
                     /\ \A i \in 2..Len(projection_df) : projection_df[i].date = lo + (i - 2)

\* C13 witness: rows two days apart with a day between them on which nothing
\* happens, which has its point all the same.
C13_Witness ==
    /\ op.name = "main"
    /\ Len(df_scenario) = 2
    /\ df_scenario[2].date = df_scenario[1].date + 2
    /\ Len(projection_df) = 4
    /\ projection_df[3].net_flow = 0

\* C13 witness of the other case: no rows, one point.
C13_WitnessEmpty ==
    op.name = "main" /\ df_scenario = <<>> /\ Len(projection_df) = 1

\* The sum of f over the indices in S.
RECURSIVE SumOver(_, _)
SumOver(f, S) ==
    IF S = {} THEN 0
    ELSE LET i == CHOOSE j \in S : TRUE IN f[i] + SumOver(f, S \ {i})

\* The amounts of the rows of one type, summed over the rows dated in days.
TotalOf(rows, type, days) ==
    SumOver([i \in DOMAIN rows |-> rows[i].amount],
            {i \in DOMAIN rows : rows[i].type = type /\ rows[i].date \in days})

\* C14: the net flow of each daily point is the income dated that day less
\* the expenses dated that day, and its balance is the starting balance plus
\* the net flows of the daily points up to it, itself included (the point of
\* today that leads the timeline left out).
C14_CumulativeBalance ==
    op.name = "main" =>
        \A i \in 2..Len(projection_df) :
            /\ projection_df[i].net_flow =
                  TotalOf(df_scenario, "income", {projection_df[i].date})
                  - TotalOf(df_scenario, "expense", {projection_df[i].date})
            /\ projection_df[i].balance =
                  current_balance
                  + SumOver([j \in DOMAIN projection_df |-> projection_df[j].net_flow], 2..i)

\* C14 witness: an income and, a day later, an expense: the last balance is
\* the starting balance moved by both days.
C14_Witness ==
    /\ op.name = "main"
    /\ Len(projection_df) = 3
    /\ projection_df[2].net_flow = 500
    /\ projection_df[3].daily_income = 0 /\ projection_df[3].daily_expenses = 200
    /\ projection_df[3].balance = current_balance + 300

\* C15: health_score is a whole number from 0 to 100 fixed by
\* days_until_danger alone: 100 with no danger date; below 30 days twice the
\* days, and 0 where that is negative; from 30 to 59 days 60 + (days - 30);
\* from 60 days on 90.
C15_HealthScore ==
    op.name = "main" =>
        LET danger == metrics.days_until_danger
            score == metrics.health_score
        IN  /\ score \in 0..100
            /\ danger = <<>> => score = 100
            /\ danger # <<>> =>
                  LET d == danger[1]
                  IN  /\ d < 0 => score = 0
                      /\ (0 <= d /\ d < 30) => score = 2 * d
                      /\ (30 <= d /\ d < 60) => score = 60 + (d - 30)
                      /\ d >= 60 => score = 90

\* C15 witness: the balance was negative yesterday already, and the score is
\* 0, not -2.
C15_Witness ==
    op.name = "main" /\ metrics.days_until_danger = <<-1>> /\ metrics.health_score = 0

\* The score at 0, 29, 59 and 60 days and with no danger date.
BreakpointsBut30 ==
    /\ metrics.days_until_danger = <<0>> => metrics.health_score = 0
    /\ metrics.days_until_danger = <<29>> => metrics.health_score = 58
    /\ metrics.days_until_danger = <<59>> => metrics.health_score = 89
    /\ metrics.days_until_danger = <<60>> => metrics.health_score = 90
    /\ metrics.days_until_danger = <<>> => metrics.health_score = 100

\* C16 as stated: health_score is 0 at 0 days, 58 at 29, 90 at 30, 89 at 59,
\* 90 at 60, and 100 with no danger date.
C16_Breakpoints ==
    op.name = "main" =>
        /\ BreakpointsBut30
        /\ metrics.days_until_danger = <<30>> => metrics.health_score = 90

\* C16 amended: health_score is 0 at 0 days, 58 at 29, 60 at 30, 89 at 59,
\* 90 at 60, and 100 with no danger date.
C16_BreakpointsAmended ==
    op.name = "main" =>
        /\ BreakpointsBut30
        /\ metrics.days_until_danger = <<30>> => metrics.health_score = 60

\* C16 witness: the balance first negative 30 days from today.
C16_Witness ==
    op.name = "main" /\ metrics.days_until_danger = <<30>> /\ metrics.health_score = 60

\* C17: days_until_danger is None exactly when no point of the timeline has
\* a negative balance; otherwise it is the date of the first point in
\* timeline order with a negative balance, less today, and that date is the
\* earliest date of the timeline with a negative balance.
C17_DaysUntilDanger ==
    op.name = "main" =>
        LET negative == {i \in DOMAIN projection_df : projection_df[i].balance < 0}
            danger == metrics.days_until_danger
        IN  /\ danger = <<>> <=> negative = {}
            /\ negative # {} =>
                  LET first == CHOOSE i \in negative : \A j \in negative : i <= j
                  IN  /\ danger = <<projection_df[first].date - Today>>
                      /\ \A j \in negative : projection_df[first].date <= projection_df[j].date

\* C18: a run of the read pipeline, whatever the scenario, delay_days and
\* what_if_expense, leaves the rows of the session, the starting balance,
\* next_id and the persisted record as they were: no stored date is moved
\* and the what-if expense is in neither the session nor the file.
C18_ReadPipelineFrame ==
    [][op'.name = "main" =>
          /\ transactions_df' = transactions_df
          /\ current_balance' = current_balance
          /\ next_id' = next_id
          /\ file' = file
          /\ \A i \in DOMAIN transactions_df' :
                transactions_df'[i].id # WhatIfId /\ transactions_df'[i].status # "projected"
          /\ file' = SaveDataRecord(transactions_df', current_balance', next_id')]_vars

\* C18 witness: the pipeline delayed a stored pending income by two days and
\* added the what-if expense in what it returned, the store holding neither.
C18_Witness ==
    /\ op.name = "main" /\ params.scenario_type = "Payment Delays"
    /\ params.delay_days = 2 /\ params.what_if_expense = 500
    /\ \E i \in DOMAIN transactions_df, j \in DOMAIN df_scenario :
          /\ transactions_df[i].status = "pending" /\ transactions_df[i].type = "income"
          /\ df_scenario[j].id = transactions_df[i].id
          /\ df_scenario[j].date = transactions_df[i].date + 2
    /\ \E j \in DOMAIN df_scenario : df_scenario[j].id = WhatIfId
    /\ Len(df_scenario) = Len(transactions_df) + 1

\* C19: whatever the order in which a running session (which loaded the
\* file once, at its start) and extraction merges write the file, a
\* transaction in the file stays in the file through every later write
\* that is not a delete or a clear (an update, which rewrites one row,
\* aside), and the file keeps distinct ids with next_id above them all.
C19_DurableUnderInterleaving ==
    [][(file.kind = "json" /\ file'.kind = "json"
          /\ op'.name \notin {"delete_transaction", "clear_all_data",
                              "update_transaction"}) =>
          /\ \A i \in DOMAIN file.data.transactions :
                \E j \in DOMAIN file'.data.transactions :
                   file'.data.transactions[j] = file.data.transactions[i]
          /\ WellNumbered(file'.data.transactions, file'.data.next_id)]_vars

\* C20: for a store with rows, the balance of the last point of the timeline
\* is the starting balance plus all the income less all the expenses of the
\* rows projected; it is the same under "Base Case" and under "Payment
\* Delays" with any delay_days: the starting balance plus the income less
\* the expenses of the store, less the what-if expense if one is asked.
C20_FinalBalance ==
    (op.name = "main" /\ df_in # <<>>) =>
        LET last == projection_df[Len(projection_df)]
            All(rows) == {rows[i].date : i \in DOMAIN rows}
            Net(rows) == TotalOf(rows, "income", All(rows)) - TotalOf(rows, "expense", All(rows))
        IN  /\ last.balance = current_balance + Net(df_scenario)
            /\ last.balance = current_balance + Net(df_in) - params.what_if_expense

\* C20 witness: a pending income delayed by two days past an expense: the
\* balance dips below the start on the way, and ends where it would have.
C20_Witness ==
    /\ op.name = "main" /\ params.scenario_type = "Payment Delays"
    /\ params.delay_days = 2 /\ params.what_if_expense = 0
    /\ Len(df_in) = 2
    /\ df_in[1].type = "income" /\ df_in[1].status = "pending"
    /\ df_in[2].type = "expense"
    /\ projection_df[2].balance < current_balance
    /\ projection_df[Len(projection_df)].balance = current_balance + 300

====
